---- MODULE Spec2Model ----
(***************************************************************************)
(* The Fibonacci and Tatami layouts of penrose's extensions::layout        *)
(* module: their ratio state under handle_message and the placements       *)
(* computed by layout().                                                   *)
(*                                                                         *)
(* An f32 is modelled exactly: a value v is the integer v * 2^27, and      *)
(* every arithmetic result is rounded to 24 significant bits, ties to      *)
(* even, as IEEE-754 single precision does.  All the values enumerated     *)
(* below are f32 values (0.1f32 = 13421773 / 2^27, 0.6f32 = 80530640 /     *)
(* 2^27, k/8 = k * 2^24 / 2^27).  NaN and the infinities are not modelled. *)
(*                                                                         *)
(* Rect's geometry primitives (crate::pure::geometry) are not part of the  *)
(* source at hand; they are modelled from the specification, section 4.1.  *)
(***************************************************************************)
EXTENDS Integers, Sequences, FiniteSets

VARIABLES layout, op, msg, stack, rect, positions, panic, replacement

vars == <<layout, op, msg, stack, rect, positions, panic, replacement>>

(***************************************************************************)
(* Bounds of the model.                                                    *)
(***************************************************************************)
MaxStack == 7
MaxW == 8
MaxH == 5
MaxCutoff == 2
MaxExcursion == 1

(***************************************************************************)
(* f32 arithmetic                                                          *)
(***************************************************************************)
F32One == 2^27

F32Eighth(k) == k * 2^24

RECURSIVE F32Ulp(_)
\* The spacing of f32 values around the magnitude a (in units of 2^-27).
F32Ulp(a) == IF a < 2^24 THEN 1 ELSE 2 * F32Ulp(a \div 2)

F32RoundMag(a) ==
    LET q    == F32Ulp(a)
        lo   == a % q
        base == a - lo
    IN  IF 2 * lo < q THEN base
        ELSE IF 2 * lo > q THEN base + q
        ELSE IF (base \div q) % 2 = 0 THEN base ELSE base + q

F32Round(n) == IF n >= 0 THEN F32RoundMag(n) ELSE -F32RoundMag(-n)

F32Add(a, b) == F32Round(a + b)

F32Sub(a, b) == F32Round(a - b)

RECURSIVE F32UlpHi(_)
F32UlpHi(hi) == IF hi < 2^12 THEN 1 ELSE 2 * F32UlpHi(hi \div 2)

\* (w as f32 * ratio) as u32: the exact product w * n is held as hi * 2^12 + lo
\* (it does not fit 32 bits), rounded to an f32 and truncated; a negative
\* product saturates to 0.  Exact for w < 2^7 and n < 2^29.
F32MulTrunc(w, n) ==
    IF n <= 0 THEN 0
    ELSE LET B    == 2^12
             a    == n \div B
             b    == n % B
             hi   == w * a + (w * b) \div B
             lo   == (w * b) % B
             q    == F32UlpHi(hi)
             r    == lo % q
             base == lo - r
             odd  == IF q < B THEN (base \div q) % 2 = 1 ELSE hi % 2 = 1
             up   == 2 * r > q \/ (2 * r = q /\ odd)
             lo2  == IF up THEN base + q ELSE base
         IN  (hi + lo2 \div B) \div 2^15

(***************************************************************************)
(* Rect and its geometry primitives (specification, section 4.1)           *)
(***************************************************************************)
Rect(x, y, w, h) == [x |-> x, y |-> y, w |-> w, h |-> h]

Ok(a, b) == [ok |-> TRUE, fst |-> a, snd |-> b, err |-> "none"]

Err(e) == [ok |-> FALSE, fst |-> Rect(0, 0, 0, 0), snd |-> Rect(0, 0, 0, 0), err |-> e]

split_at_width(r, new_width) ==
    IF new_width > r.w THEN Err("InvalidSplit")
    ELSE Ok(Rect(r.x, r.y, new_width, r.h),
            Rect(r.x + new_width, r.y, r.w - new_width, r.h))

split_at_height(r, new_height) ==
    IF new_height > r.h THEN Err("InvalidSplit")
    ELSE Ok(Rect(r.x, r.y, r.w, new_height),
            Rect(r.x, r.y + new_height, r.w, r.h - new_height))

split_at_width_perc(r, p) ==
    IF p < 0 \/ p > F32One THEN Err("InvalidRatio")
    ELSE split_at_width(r, F32MulTrunc(r.w, p))

split_at_height_perc(r, p) ==
    IF p < 0 \/ p > F32One THEN Err("InvalidRatio")
    ELSE split_at_height(r, F32MulTrunc(r.h, p))

split_at_mid_width(r) == split_at_width(r, r.w \div 2)

split_at_mid_height(r) == split_at_height(r, r.h \div 2)

\* n equal-height rows; the remainder pixels go to the last row.
as_rows(r, n) ==
    LET h == r.h \div n
    IN  [k \in 1..n |->
            Rect(r.x, r.y + (k - 1) * h, r.w,
                 IF k = n THEN r.h - (n - 1) * h ELSE h)]

\* n equal-width columns; the remainder pixels go to the last column.
as_columns(r, n) ==
    LET w == r.w \div n
    IN  [k \in 1..n |->
            Rect(r.x + (k - 1) * w, r.y,
                 IF k = n THEN r.w - (n - 1) * w ELSE w, r.h)]

(***************************************************************************)
(* Results of layout(): the placements, or the failure an expect() panics  *)
(* with.                                                                   *)
(***************************************************************************)
Placed(ps) == [panic |-> "none", positions |-> ps]

Panicked(e) == [panic |-> e, positions |-> <<>>]

Min(a, b) == IF a < b THEN a ELSE b

(***************************************************************************)
(* Fibonacci                                                               *)
(***************************************************************************)
FibonacciNew(cutoff, ratio, ratio_step) ==
    [kind |-> "Fibonacci", cutoff |-> cutoff, ratio |-> ratio,
     ratio_step |-> ratio_step]

FibonacciDefault == FibonacciNew(40, 2^26, 13421773)

\* AtCutoff with < for <=.
AtCutoffStrict(self, i, n, r1) ==
    i = n - 1 \/ r1.w < self.cutoff \/ r1.h < self.cutoff

\* let at_cutoff = i == n - 1 || r1.w <= self.cutoff || r1.h <= self.cutoff;
\* i is the 0-based index of the member.
AtCutoff(self, i, n, r1) ==
    i = n - 1 \/ r1.w <= self.cutoff \/ r1.h <= self.cutoff

\* Absorb with the two axes exchanged.
AbsorbSwapped(i, r1, r2) ==
    IF i % 2 = 0 THEN [r1 EXCEPT !.h = r1.h + r2.h]
    ELSE [r1 EXCEPT !.w = r1.w + r2.w]

\* The terminal member takes the remainder region too.
Absorb(i, r1, r2) ==
    IF i % 2 = 0 THEN [r1 EXCEPT !.w = r1.w + r2.w]
    ELSE [r1 EXCEPT !.h = r1.h + r2.h]

\* SplitNext with the two axes exchanged.
SplitNextSwapped(self, i, r2) ==
    IF i % 2 = 0 THEN split_at_width_perc(r2, self.ratio)
    ELSE split_at_height_perc(r2, self.ratio)

\* The split of the remainder for the next member.
SplitNext(self, i, r2) ==
    IF i % 2 = 0 THEN split_at_height_perc(r2, self.ratio)
    ELSE split_at_width_perc(r2, self.ratio)

RECURSIVE FibonacciLoop(_, _, _, _, _, _)
\* The for loop of Fibonacci::layout from member i on.
FibonacciLoop(self, s, i, r1, r2, ps) ==
    LET n == Len(s) IN
    IF i >= n THEN Placed(ps)
    ELSE LET at_cutoff == AtCutoff(self, i, n, r1)
             p1  == IF at_cutoff THEN Absorb(i, r1, r2) ELSE r1
             ps1 == Append(ps, [id |-> s[i + 1], r |-> p1])
         IN  IF at_cutoff THEN Placed(ps1)
             ELSE LET sp == SplitNext(self, i, r2)
                  IN  IF ~sp.ok THEN Panicked(sp.err)
                      ELSE FibonacciLoop(self, s, i + 1, sp.fst, sp.snd, ps1)

Fibonacci_layout(self, s, r) ==
    LET sp == split_at_width_perc(r, self.ratio)
    IN  IF ~sp.ok THEN Panicked(sp.err)
        ELSE FibonacciLoop(self, s, 0, sp.fst, sp.snd, <<>>)

Fibonacci_handle_message(self, m) ==
    IF m = "ExpandMain"
    THEN LET sum == F32Add(self.ratio, self.ratio_step)
         IN  [self EXCEPT !.ratio = IF sum > F32One THEN F32One ELSE sum]
    ELSE IF m = "ShrinkMain"
    THEN LET diff == F32Sub(self.ratio, self.ratio_step)
         IN  [self EXCEPT !.ratio = IF diff < 0 THEN 0 ELSE diff]
    ELSE self

(***************************************************************************)
(* Tatami                                                                  *)
(***************************************************************************)
TatamiNew(ratio, ratio_step) ==
    [kind |-> "Tatami", ratio |-> ratio, ratio_step |-> ratio_step]

TatamiDefault == TatamiNew(80530640, 13421773)

\* s.iter().zip(rs)
Apply(s, rs) ==
    [k \in 1..Min(Len(s), Len(rs)) |-> [id |-> s[k], r |-> rs[k]]]

\* r.split_at_width((r.w as f32 * self.ratio) as u32)
SplitMain(self, r) == split_at_width(r, F32MulTrunc(r.w, self.ratio))

\* TatamiCapacity capped one client short.
TatamiCapacityFive(len) == Min(len, 5)

\* We only position the first 6 clients.
TatamiCapacity(len) == Min(len, 6)

Tatami2(r1, r2) == <<r1, r2>>

Tatami3(r1, side) ==
    LET a == split_at_mid_height(side)
    IN  <<r1, a.fst, a.snd>>

Tatami4(r1, side) ==
    LET a == split_at_mid_height(side)
        b == split_at_mid_width(a.fst)
    IN  <<r1, b.fst, b.snd, a.snd>>

Tatami5(r1, side) ==
    LET rows == as_rows(side, 4)
        rmid == [rows[2] EXCEPT !.h = rows[2].h + rows[3].h]
        b    == split_at_mid_width(rmid)
    IN  <<r1, rows[1], b.fst, b.snd, rows[4]>>

\* Tatami6 with columns 1 and 2 not moved down below the top band.
Tatami6Unshifted(r1, side) ==
    LET cols == as_columns(side, 3)
        h    == r1.h \div 4
        r2   == [cols[1] EXCEPT !.h = cols[1].h - h]
        r4   == [cols[2] EXCEPT !.h = cols[2].h - 2 * h]
        r5   == [cols[3] EXCEPT !.h = cols[3].h - h]
        r3   == Rect(r2.x + r2.w, r2.y, r2.w * 2, h)
        r6   == Rect(r2.x, r2.y + r2.h, r2.w * 2, h)
    IN  <<r1, r2, r3, r4, r5, r6>>

\* Tatami6 with the top band three columns wide.
Tatami6WideBand(r1, side) ==
    LET cols == as_columns(side, 3)
        h    == r1.h \div 4
        r2   == [cols[1] EXCEPT !.h = cols[1].h - h]
        r4   == [cols[2] EXCEPT !.h = cols[2].h - 2 * h, !.y = cols[2].y + h]
        r5   == [cols[3] EXCEPT !.h = cols[3].h - h, !.y = cols[3].y + h]
        r3   == Rect(r2.x + r2.w, r2.y, r2.w * 3, h)
        r6   == Rect(r2.x, r2.y + r2.h, r2.w * 2, h)
    IN  <<r1, r2, r3, r4, r5, r6>>

Tatami6(r1, side) ==
    LET cols == as_columns(side, 3)
        h    == r1.h \div 4
        r2   == [cols[1] EXCEPT !.h = cols[1].h - h]
        r4   == [cols[2] EXCEPT !.h = cols[2].h - 2 * h, !.y = cols[2].y + h]
        r5   == [cols[3] EXCEPT !.h = cols[3].h - h, !.y = cols[3].y + h]
        r3   == Rect(r2.x + r2.w, r2.y, r2.w * 2, h)
        r6   == Rect(r2.x, r2.y + r2.h, r2.w * 2, h)
    IN  <<r1, r2, r3, r4, r5, r6>>

Tatami_layout(self, s, r) ==
    LET n == TatamiCapacity(Len(s)) IN
    IF n = 0 THEN Placed(<<>>)
    ELSE IF n = 1 THEN Placed(Apply(s, <<r>>))
    ELSE IF n > 6 THEN Panicked("unreachable")
    ELSE LET sp == SplitMain(self, r)
         IN  IF ~sp.ok THEN Panicked(sp.err)
             ELSE Placed(Apply(s,
                    CASE n = 2 -> Tatami2(sp.fst, sp.snd)
                      [] n = 3 -> Tatami3(sp.fst, sp.snd)
                      [] n = 4 -> Tatami4(sp.fst, sp.snd)
                      [] n = 5 -> Tatami5(sp.fst, sp.snd)
                      [] n = 6 -> Tatami6(sp.fst, sp.snd)))

\* Tatami_handle_message taking every message but ExpandMain for ShrinkMain.
Tatami_handle_message_else(self, m) ==
    IF m = "ExpandMain"
    THEN LET sum == F32Add(self.ratio, self.ratio_step)
         IN  [self EXCEPT !.ratio = IF sum > F32One THEN F32One ELSE sum]
    ELSE LET diff == F32Sub(self.ratio, self.ratio_step)
         IN  [self EXCEPT !.ratio = IF diff < 0 THEN 0 ELSE diff]

Tatami_handle_message(self, m) ==
    IF m = "ExpandMain"
    THEN LET sum == F32Add(self.ratio, self.ratio_step)
         IN  [self EXCEPT !.ratio = IF sum > F32One THEN F32One ELSE sum]
    ELSE IF m = "ShrinkMain"
    THEN LET diff == F32Sub(self.ratio, self.ratio_step)
         IN  [self EXCEPT !.ratio = IF diff < 0 THEN 0 ELSE diff]
    ELSE self

(***************************************************************************)
(* The inputs                                                              *)
(***************************************************************************)
\* Message kinds: the two the layouts recognise, and two they do not.
Messages == {"ExpandMain", "ShrinkMain", "IncMain", "Rotate"}

\* Stacks of unique client ids, in two iteration orders.
Stacks ==
    {[k \in 1..len |-> k] : len \in 0..MaxStack}
        \cup {[k \in 1..len |-> len + 1 - k] : len \in 1..MaxStack}

Origins == {<<0, 0>>, <<3, 1>>}

Rects == {Rect(o[1], o[2], w, h) : o \in Origins, w \in 0..MaxW, h \in 0..MaxH}

\* The screen of the specification's worked scenarios.
ScenarioRects == {Rect(0, 0, 100, 100), Rect(0, 0, 100, 50), Rect(0, 0, 90, 110)}

Ratios == {F32Eighth(k) : k \in 0..8}

\* 1/8 reaches every ratio of Ratios, 3/8 reaches the clamps from off the
\* grid of its multiples, -1/4 is a step the constructors accept as well.
RatioSteps == {F32Eighth(1), F32Eighth(3), -F32Eighth(2)}

Idle == /\ op = "new"
        /\ msg = "none"
        /\ stack = <<>>
        /\ rect = Rect(0, 0, 0, 0)
        /\ positions = <<>>
        /\ panic = "none"
        /\ replacement = "None"

Init ==
    /\ layout \in {FibonacciNew(c, ra, st) :
                      c \in 0..MaxCutoff, ra \in Ratios, st \in RatioSteps}
                  \cup {TatamiNew(ra, st) : ra \in Ratios, st \in RatioSteps}
    /\ Idle

InitDefault ==
    /\ layout \in {FibonacciDefault, TatamiDefault}
    /\ Idle

(***************************************************************************)
(* The operations.  A panic ends the program; a ratio is followed at most  *)
(* MaxExcursion units outside [0, 1].  layout() changes no field of the    *)
(* layout, so a call that follows another layout() call computes what it   *)
(* would have computed in its place: the model takes a layout() call from  *)
(* the states a constructor or handle_message left.                        *)
(***************************************************************************)
CanLayOut == panic = "none" /\ op # "layout"

Followed == /\ panic = "none"
            /\ layout.ratio >= -(MaxExcursion * F32One)
            /\ layout.ratio <= (1 + MaxExcursion) * F32One

Handled(l, m) ==
    /\ layout' = l
    /\ op' = "handle_message"
    /\ msg' = m
    /\ replacement' = "None"
    /\ stack' = <<>>
    /\ rect' = Rect(0, 0, 0, 0)
    /\ positions' = <<>>
    /\ panic' = "none"

LaidOut(s, r, res) ==
    /\ op' = "layout"
    /\ msg' = "none"
    /\ stack' = s
    /\ rect' = r
    /\ positions' = res.positions
    /\ panic' = res.panic
    /\ replacement' = "None"
    /\ UNCHANGED layout

FibonacciHandleMessage ==
    /\ Followed
    /\ layout.kind = "Fibonacci"
    /\ \E m \in Messages : Handled(Fibonacci_handle_message(layout, m), m)

TatamiHandleMessage ==
    /\ Followed
    /\ layout.kind = "Tatami"
    /\ \E m \in Messages : Handled(Tatami_handle_message(layout, m), m)

FibonacciLayout ==
    /\ CanLayOut
    /\ layout.kind = "Fibonacci"
    /\ \E s \in Stacks, r \in Rects : LaidOut(s, r, Fibonacci_layout(layout, s, r))

TatamiLayout ==
    /\ CanLayOut
    /\ layout.kind = "Tatami"
    /\ \E s \in Stacks, r \in Rects : LaidOut(s, r, Tatami_layout(layout, s, r))

FibonacciLayoutScenario ==
    /\ CanLayOut
    /\ layout.kind = "Fibonacci"
    /\ \E s \in Stacks, r \in ScenarioRects :
          LaidOut(s, r, Fibonacci_layout(layout, s, r))

TatamiLayoutScenario ==
    /\ CanLayOut
    /\ layout.kind = "Tatami"
    /\ \E s \in Stacks, r \in ScenarioRects :
          LaidOut(s, r, Tatami_layout(layout, s, r))

Next ==
    \/ FibonacciHandleMessage
    \/ TatamiHandleMessage
    \/ FibonacciLayout
    \/ TatamiLayout

Spec == Init /\ [][Next]_vars

NextDefault ==
    \/ FibonacciHandleMessage
    \/ TatamiHandleMessage
    \/ FibonacciLayoutScenario
    \/ TatamiLayoutScenario

SpecDefault == InitDefault /\ [][NextDefault]_vars

(***************************************************************************)
(* What the claims speak of                                                *)
(***************************************************************************)
InUnit(x) == 0 <= x /\ x <= F32One

Recognised == {"ExpandMain", "ShrinkMain"}

Pixels(r) == {<<px, py>> : px \in r.x..(r.x + r.w - 1), py \in r.y..(r.y + r.h - 1)}

Covered == UNION {Pixels(positions[k].r) : k \in 1..Len(positions)}

Inside(a, r) ==
    /\ a.x >= r.x
    /\ a.y >= r.y
    /\ a.x + a.w <= r.x + r.w
    /\ a.y + a.h <= r.y + r.h

UniqueIds ==
    \A i, j \in 1..Len(positions) : positions[i].id = positions[j].id => i = j

\* A layout() call of the named layout has been made with a ratio in [0, 1].
LaidOutBy(kind) == op = "layout" /\ layout.kind = kind /\ InUnit(layout.ratio)

(* C1: after every handle_message call carrying ExpandMain or ShrinkMain,  *)
(* the ratio of a layout that started with a ratio in [0, 1] is in [0, 1], *)
(* whatever its ratio_step.                                                *)
C1_RatioInUnit ==
    (op = "handle_message" /\ msg \in Recognised) => InUnit(layout.ratio)

(* C2: handle_message with a message that is neither ExpandMain nor        *)
(* ShrinkMain leaves every field of the layout unchanged and returns no    *)
(* replacement.                                                            *)
C2_UnrecognisedIsNoOp ==
    [][(op' = "handle_message" /\ msg' \notin Recognised)
          => (layout' = layout /\ replacement' = "None")]_vars

C2_Witness ==
    /\ op = "handle_message"
    /\ msg = "Rotate"
    /\ layout.kind = "Tatami"
    /\ layout.ratio = F32Eighth(3)

(* C3: Fibonacci::layout of a non-empty stack with a ratio in [0, 1]       *)
(* returns placements whose union is exactly the input rectangle, each     *)
(* identifier at most once.                                                *)
C3_FibonacciCovers ==
    (LaidOutBy("Fibonacci") /\ stack # <<>>)
        => (panic = "none" /\ Covered = Pixels(rect) /\ UniqueIds)

\* The cutoff stopped the subdivision before the last member.
C3_Witness ==
    /\ LaidOutBy("Fibonacci")
    /\ Len(positions) >= 3
    /\ Len(positions) < Len(stack)
    /\ Covered = Pixels(rect)
    /\ rect.w = MaxW /\ rect.h = MaxH

(* C4: Tatami::layout returns Min(L, 6) placements for a stack of length   *)
(* L, and they are for the first identifiers of the stack in iteration     *)
(* order: the identifiers left out are the last L - 6.                     *)
C4_TatamiCapacity ==
    (op = "layout" /\ layout.kind = "Tatami" /\ panic = "none")
        => /\ Len(positions) = Min(Len(stack), 6)
           /\ \A k \in 1..Len(positions) : positions[k].id = stack[k]

C4_Witness ==
    /\ op = "layout" /\ layout.kind = "Tatami" /\ panic = "none"
    /\ Len(stack) = 7
    /\ stack[1] = 7
    /\ Len(positions) = 6
    /\ positions[6].id = 2

(* C5: the placements of one layout() call, of either layout with a ratio  *)
(* in [0, 1], are pairwise disjoint: no pixel belongs to two of them.      *)
C5_NoOverlap ==
    (op = "layout" /\ InUnit(layout.ratio))
        => \A i, j \in 1..Len(positions) :
              i < j => Pixels(positions[i].r) \cap Pixels(positions[j].r) = {}

\* The six-client template on a side region whose width is no multiple of
\* 3, in a rectangle whose height is no multiple of 4.
C5_Witness ==
    /\ LaidOutBy("Tatami")
    /\ Len(positions) = 6
    /\ (rect.w - positions[1].r.w) % 3 # 0
    /\ rect.w - positions[1].r.w > 3
    /\ rect.h % 4 # 0
    /\ rect.h > 4

(* C6: Tatami::layout of a non-empty stack with a ratio in [0, 1] tiles    *)
(* the input rectangle with no gap, member 0 at its top-left corner.       *)
C6_TatamiCovers ==
    (LaidOutBy("Tatami") /\ stack # <<>>)
        => /\ panic = "none"
           /\ Covered = Pixels(rect)
           /\ positions[1].id = stack[1]
           /\ positions[1].r.x = rect.x
           /\ positions[1].r.y = rect.y

(* C7: no layout() call fails: the geometry failures InvalidRatio and      *)
(* InvalidSplit are never met by an expect(), after any sequence of        *)
(* handle_message calls on a layout that started with a ratio in [0, 1].   *)
C7_NoGeometryFailure == panic = "none"

(* C8: the default Fibonacci layout places [A, B, C] in {0, 0, 100, 100}   *)
(* at A = {0, 0, 50, 100}, B = {50, 0, 50, 50}, C = {50, 50, 50, 50}, in   *)
(* that order (A, B, C are the ids 1, 2, 3).                               *)
C8_DefaultScenario ==
    (/\ op = "layout"
     /\ layout = FibonacciDefault
     /\ stack = <<1, 2, 3>>
     /\ rect = Rect(0, 0, 100, 100))
        => /\ panic = "none"
           /\ positions = << [id |-> 1, r |-> Rect(0, 0, 50, 100)],
                             [id |-> 2, r |-> Rect(50, 0, 50, 50)],
                             [id |-> 3, r |-> Rect(50, 50, 50, 50)] >>

C8_Witness ==
    /\ op = "layout"
    /\ layout = FibonacciDefault
    /\ stack = <<1, 2, 3>>
    /\ rect = Rect(0, 0, 100, 100)
    /\ Len(positions) = 3

RECURSIVE Regions(_, _, _)
\* The (primary, remainder) pair of step i of the subdivision of r, were
\* the subdivision never stopped (for a ratio in [0, 1]).
Regions(self, r, i) ==
    IF i = 0 THEN split_at_width_perc(r, self.ratio)
    ELSE IF i % 2 = 1 THEN split_at_height_perc(Regions(self, r, i - 1).snd, self.ratio)
    ELSE split_at_width_perc(Regions(self, r, i - 1).snd, self.ratio)

Terminal(self, s, r, i) ==
    \/ i = Len(s) - 1
    \/ Regions(self, r, i).fst.w <= self.cutoff
    \/ Regions(self, r, i).fst.h <= self.cutoff

\* The smallest terminal index.
LastPlaced(self, s, r) ==
    CHOOSE k \in 0..(Len(s) - 1) :
        /\ Terminal(self, s, r, k)
        /\ \A j \in 0..(k - 1) : ~Terminal(self, s, r, j)

(* C9: Fibonacci::layout places exactly the members 0..k, k the smallest   *)
(* index that is the last one or whose primary region has a width or a     *)
(* height <= cutoff; the members before k get their primary regions, each  *)
(* wider and higher than cutoff, and member k gets its primary region      *)
(* grown by the remainder, in width when k is even, in height when odd.    *)
C9_FibonacciPrefix ==
    (LaidOutBy("Fibonacci") /\ stack # <<>>)
        => LET k    == LastPlaced(layout, stack, rect)
               last == Regions(layout, rect, k)
           IN  /\ panic = "none"
               /\ Len(positions) = k + 1
               /\ \A j \in 0..k : positions[j + 1].id = stack[j + 1]
               /\ \A j \in 0..(k - 1) :
                     /\ positions[j + 1].r = Regions(layout, rect, j).fst
                     /\ positions[j + 1].r.w > layout.cutoff
                     /\ positions[j + 1].r.h > layout.cutoff
               /\ positions[k + 1].r =
                     IF k % 2 = 0
                     THEN [last.fst EXCEPT !.w = last.fst.w + last.snd.w]
                     ELSE [last.fst EXCEPT !.h = last.fst.h + last.snd.h]

\* The cutoff (not the end of the stack) stopped at an odd member, which
\* grew in height.
C9_Witness ==
    /\ LaidOutBy("Fibonacci")
    /\ layout.cutoff > 0
    /\ Len(positions) = 2
    /\ Len(stack) > 3
    /\ positions[2].r.h = rect.h
    /\ positions[2].r.w > 0
    /\ positions[1].r.w > layout.cutoff

(* C10: every rectangle returned by layout(), of either layout with a      *)
(* ratio in [0, 1], lies inside the input rectangle.                       *)
C10_InsideInput ==
    (op = "layout" /\ InUnit(layout.ratio))
        => \A k \in 1..Len(positions) : Inside(positions[k].r, rect)

\* The six-client template with both double-width bands non-empty, away
\* from the origin.
C10_Witness ==
    /\ LaidOutBy("Tatami")
    /\ Len(positions) = 6
    /\ rect.x > 0
    /\ positions[3].r.w > 0 /\ positions[3].r.h > 0
    /\ positions[6].r.w > 0 /\ positions[6].r.h > 0
    /\ (rect.w - positions[1].r.w) % 3 # 0

====
